---- MODULE Spec2Model ----
(***************************************************************************)
(* pubsubschema-gen (tools/pubsubschema-gen/main.go): a generator that     *)
(* turns every *.pubsub.proto file of a directory into a PubSubSchema      *)
(* manifest <derived-name>.schema.yaml and writes a kustomization.yaml     *)
(* index.  Strings are sequences of one-character strings; a longer        *)
(* element of a text is a literal of the source holding no CR and no LF.   *)
(***************************************************************************)
EXTENDS Integers, Sequences, FiniteSets, TLC

VARIABLES
    pubsub,     \* entries of --pubsub-dir matching the glob: [raw, regular]
    outKind,    \* what --output-dir is: "absent", "dir" or "file"
    entries,    \* direct entries of --output-dir: [name, kind, data]
    pc,         \* position of the run: idle, clean, loop, index, done
    files,      \* pubsubFiles, the result of resolveInputs
    idx,        \* position of the loop of generateAll in files
    generated,  \* the accumulator of generateAll
    outcome,    \* "none" while running, then "ok" (exit 0) or "error" (exit 1)
    failStage,  \* the return statement that ended an aborted run
    before,     \* the output directory when the run started
    written,    \* base names of the manifests this run wrote, in order
    runNo,      \* "first" or "second" run over the same inputs
    firstRun,   \* outcome and output directory at the end of the first run
    faults,     \* I/O failures the environment has injected so far
    fnPc,       \* position of a pure-function check
    fnIn,       \* its input
    fnOut       \* its results

vars == <<pubsub, outKind, entries, pc, files, idx, generated, outcome,
          failStage, before, written, runNo, firstRun, faults, fnPc, fnIn, fnOut>>

runVars == <<pubsub, outKind, entries, pc, files, idx, generated, outcome,
             failStage, before, written, runNo, firstRun, faults>>

fnVars == <<fnPc, fnIn, fnOut>>

----------------------------------------------------------------------------
(* Bounds *)

MaxInputs == 2
MaxStale == 1
MaxFaults == 1
MaxRawLen == 3
MaxTextLen == 4

----------------------------------------------------------------------------
(* Strings *)

\* The characters in use, in byte order: sort.Strings compares byte-wise.
ByteOrder ==
    <<"\n", "\r", " ", "-", ".", "/", "1", "B", "_",
      "a", "b", "c", "d", "e", "f", "g", "h", "i", "j", "k", "l", "m",
      "n", "o", "p", "q", "r", "s", "t", "u", "v", "w", "x", "y", "z">>

Code(c) == CHOOSE k \in 1..Len(ByteOrder) : ByteOrder[k] = c

Min(a, b) == IF a < b THEN a ELSE b

\* s < t as Go compares strings
Less(s, t) ==
    \E k \in 1..(Min(Len(s), Len(t)) + 1) :
        /\ \A j \in 1..(k - 1) : s[j] = t[j]
        /\ \/ k > Len(s) /\ k <= Len(t)
           \/ k <= Len(s) /\ k <= Len(t) /\ Code(s[k]) < Code(t[k])

LessEq(s, t) == s = t \/ Less(s, t)

IsSorted(q) == \A k \in 1..(Len(q) - 1) : LessEq(q[k], q[k + 1])

RECURSIVE Insert(_, _)
Insert(x, q) ==
    IF q = <<>> THEN <<x>>
    ELSE IF LessEq(x, Head(q)) THEN <<x>> \o q
    ELSE <<Head(q)>> \o Insert(x, Tail(q))

RECURSIVE SortStrings(_)
SortStrings(q) ==
    IF q = <<>> THEN <<>> ELSE Insert(Head(q), SortStrings(Tail(q)))

HasSuffix(s, suf) ==
    /\ Len(s) >= Len(suf)
    /\ SubSeq(s, Len(s) - Len(suf) + 1, Len(s)) = suf

TrimSuffix(s, suf) ==
    IF HasSuffix(s, suf) THEN SubSeq(s, 1, Len(s) - Len(suf)) ELSE s

\* strings.ReplaceAll for a non-empty old: one pass, left to right, the
\* matches not overlapping and the replacement not rescanned.
RECURSIVE ReplaceAll(_, _, _)
ReplaceAll(s, old, new) ==
    IF Len(s) < Len(old) THEN s
    ELSE IF SubSeq(s, 1, Len(old)) = old
         THEN new \o ReplaceAll(SubSeq(s, Len(old) + 1, Len(s)), old, new)
         ELSE <<Head(s)>> \o ReplaceAll(Tail(s), old, new)

RECURSIVE TrimRight(_, _)
TrimRight(s, c) ==
    IF s # <<>> /\ s[Len(s)] = c THEN TrimRight(SubSeq(s, 1, Len(s) - 1), c)
    ELSE s

\* "B" is the one upper-case letter in use
ToLowerChar(c) == IF c = "B" THEN "b" ELSE c

ToLower(s) == [k \in 1..Len(s) |-> ToLowerChar(s[k])]

\* strings.Split(s, "\n")
RECURSIVE Split(_, _)
Split(s, c) ==
    IF \A k \in 1..Len(s) : s[k] # c THEN <<s>>
    ELSE LET k == CHOOSE k \in 1..Len(s) :
                      s[k] = c /\ \A j \in 1..(k - 1) : s[j] # c
         IN <<SubSeq(s, 1, k - 1)>> \o Split(SubSeq(s, k + 1, Len(s)), c)

\* strings.Join(lines, "\n")
RECURSIVE Join(_, _)
Join(lines, c) ==
    IF Len(lines) = 0 THEN <<>>
    ELSE IF Len(lines) = 1 THEN lines[1]
    ELSE lines[1] \o <<c>> \o Join(Tail(lines), c)

\* filepath.Base
RECURSIVE Base(_)
Base(path) ==
    IF path = <<>> THEN <<".">>
    ELSE IF path[Len(path)] = "/"
         THEN IF Len(path) = 1 THEN <<"/">>
              ELSE Base(SubSeq(path, 1, Len(path) - 1))
    ELSE IF \E k \in 1..Len(path) : path[k] = "/"
         THEN LET k == CHOOSE k \in 1..Len(path) :
                           path[k] = "/" /\ \A j \in (k + 1)..Len(path) : path[j] # "/"
              IN SubSeq(path, k + 1, Len(path))
    ELSE path

CR == "\r"
LF == "\n"
CRLF == <<CR, LF>>

HasCRLF(s) == \E k \in 1..(Len(s) - 1) : s[k] = CR /\ s[k + 1] = LF

ProtoSuffix == <<".", "p", "u", "b", "s", "u", "b", ".", "p", "r", "o", "t", "o">>
SchemaSuffix == <<".", "s", "c", "h", "e", "m", "a", ".", "y", "a", "m", "l">>
KustomizationName ==
    <<"k", "u", "s", "t", "o", "m", "i", "z", "a", "t", "i", "o", "n",
      ".", "y", "a", "m", "l">>
PubsubDir == <<"p", "/">>

----------------------------------------------------------------------------
(* The pure functions of main.go *)

\* the derivation without strings.ToLower
deriveKeepingCase(filename) ==
    LET base == TrimSuffix(Base(filename), ProtoSuffix)
    IN ReplaceAll(ReplaceAll(base, <<".">>, <<"-">>), <<"_">>, <<"-">>)

deriveSchemaNameFromFilename(filename) ==
    LET base == TrimSuffix(Base(filename), ProtoSuffix)
        safe == ToLower(base)
    IN ReplaceAll(ReplaceAll(safe, <<".">>, <<"-">>), <<"_">>, <<"-">>)

normalizeNewlines(s) ==
    TrimRight(ReplaceAll(s, CRLF, <<LF>>), LF) \o <<LF>>

Indent == "    "

indentForYAMLLiteralBlock(s, indent) ==
    LET lines == Split(s, LF)
    IN Join([k \in 1..Len(lines) |-> <<indent>> \o lines[k]], LF)

schemaManifest(schemaName, protoDefinition) ==
    <<"apiVersion: pubsub.cnrm.cloud.google.com/v1beta1", LF,
      "kind: PubSubSchema", LF,
      "metadata:", LF,
      "  name: ">> \o schemaName \o <<LF,
      "spec:", LF,
      "  type: PROTOCOL_BUFFER", LF,
      "  definition: |", LF>> \o
    indentForYAMLLiteralBlock(protoDefinition, Indent)

\* the bytes writeFile hands to os.WriteFile
writeFileBytes(contents) == ReplaceAll(contents, CRLF, <<LF>>)

RECURSIVE resourceLines(_)
resourceLines(resources) ==
    IF resources = <<>> THEN <<>>
    ELSE <<"  - ">> \o Head(resources) \o <<LF>> \o resourceLines(Tail(resources))

kustomizationText(resources) ==
    <<"apiVersion: kustomize.config.k8s.io/v1beta1", LF,
      "kind: Kustomization", LF, LF,
      "resources:", LF>> \o resourceLines(resources)

----------------------------------------------------------------------------
(* The file systems *)

\* Raw identifiers of the files the glob may match (<raw>.pubsub.proto).
\* "B" sorts before "a" and its name "b" after; "a.B" and "a_b" share the
\* name "a-b"; the empty identifier is the file ".pubsub.proto".
RawIds == {<<>>, <<"B">>, <<"a">>, <<"a", ".", "B">>, <<"a", "_", "b">>}

\* what os.ReadFile returns for the input with this identifier
protoText(raw) == <<"message ">> \o raw \o <<" {}", CR, LF>>

globPath(raw) == PubsubDir \o raw \o ProtoSuffix

rawOfPath(p) == CHOOSE raw \in RawIds : globPath(raw) = p

OldData == <<"old">>

File(n, d) == [name |-> n, kind |-> "file", data |-> d]

\* names a previous run over other inputs may have left behind
SchemaNames == {deriveSchemaNameFromFilename(globPath(raw)) \o SchemaSuffix : raw \in RawIds}

OtherName == <<"r", "e", "a", "d", "m", "e">>

Distinct(S) == \A a, b \in S : a.name = b.name => a = b

StaleSets ==
    {S \in SUBSET [name : SchemaNames, kind : {"file", "dir", "other"}, data : {OldData}] :
        Cardinality(S) <= MaxStale /\ Distinct(S)}

IndexSets ==
    {{}, {File(KustomizationName, OldData)},
     {[name |-> KustomizationName, kind |-> "dir", data |-> OldData]}}

OtherSets == {{}, {File(OtherName, OldData)}}

PubsubSets ==
    {S \in SUBSET [raw : RawIds, regular : BOOLEAN] :
        /\ Cardinality(S) <= MaxInputs
        /\ \A a, b \in S : a.raw = b.raw => a = b}

Snapshot == [kind |-> outKind, entries |-> entries]

NoRun == [outcome |-> "none", kind |-> "absent", entries |-> {}]

Has(E, n) == \E e \in E : e.name = n

EntryOf(E, n) == CHOOSE e \in E : e.name = n

IsDirAt(E, n) == Has(E, n) /\ EntryOf(E, n).kind = "dir"

Put(E, e) == {x \in E : x.name # e.name} \cup {e}

\* every order in which the members of S can be enumerated
Enumerations(S) ==
    {q \in [1..Cardinality(S) -> S] : \A a, b \in 1..Cardinality(S) : a # b => q[a] # q[b]}

----------------------------------------------------------------------------
(* The run *)

InitRun ==
    /\ pubsub \in PubsubSets
    /\ outKind \in {"absent", "dir", "file"}
    /\ IF outKind = "dir"
       THEN \E st \in StaleSets, ix \in IndexSets, ot \in OtherSets :
                entries = st \cup ix \cup ot
       ELSE entries = {}
    /\ pc = "idle"
    /\ files = <<>>
    /\ idx = 1
    /\ generated = <<>>
    /\ outcome = "none"
    /\ failStage = "none"
    /\ before = [kind |-> outKind, entries |-> entries]
    /\ written = <<>>
    /\ runNo = "first"
    /\ firstRun = NoRun
    /\ faults = 0

FnIdle ==
    /\ fnPc = "off"
    /\ fnIn = <<>>
    /\ fnOut = <<>>

Init == InitRun /\ FnIdle

\* the resolution without the os.Stat filter
resolveInputsUnfiltered(matches) ==
    SortStrings([k \in 1..Len(matches) |-> globPath(matches[k].raw)])

resolveInputs(matches) ==
    LET regular == SelectSeq(matches, LAMBDA m : m.regular)
    IN SortStrings([k \in 1..Len(regular) |-> globPath(regular[k].raw)])

Abort(stage) ==
    /\ pc' = "done"
    /\ outcome' = "error"
    /\ failStage' = stage

\* run and the first statement of generateAll: no input, exit 1
RunNoInputs ==
    /\ pc = "idle"
    /\ \E matches \in Enumerations(pubsub) :
        /\ resolveInputs(matches) = <<>>
        /\ files' = resolveInputs(matches)
    /\ before' = Snapshot
    /\ idx' = 1
    /\ generated' = <<>>
    /\ written' = <<>>
    /\ Abort("empty")
    /\ UNCHANGED <<pubsub, outKind, entries, runNo, firstRun, faults, fnVars>>

RunResolve ==
    /\ pc = "idle"
    /\ \E matches \in Enumerations(pubsub) :
        /\ resolveInputs(matches) # <<>>
        /\ files' = resolveInputs(matches)
    /\ before' = Snapshot
    /\ idx' = 1
    /\ generated' = <<>>
    /\ written' = <<>>
    /\ pc' = "clean"
    /\ outcome' = "none"
    /\ failStage' = "none"
    /\ UNCHANGED <<pubsub, outKind, entries, runNo, firstRun, faults, fnVars>>

\* the cleanup left out
removableNone(E) == <<>>

\* the cleanup without the e.IsDir() test
removableWithDirs(E) ==
    SortStrings(CHOOSE q \in Enumerations({e.name : e \in
        {x \in E : HasSuffix(x.name, SchemaSuffix)}}) : TRUE)

\* os.ReadDir lists by file name; these are the entries the loop removes
removable(E) ==
    SortStrings(CHOOSE q \in Enumerations({e.name : e \in
        {x \in E : x.kind # "dir" /\ HasSuffix(x.name, SchemaSuffix)}}) : TRUE)

removeFirst(E, q, n) == {e \in E : \A k \in 1..n : q[k] # e.name}

\* removeGeneratedSchemas: the directory does not exist
CleanAbsent ==
    /\ pc = "clean"
    /\ outKind = "absent"
    /\ pc' = "loop"
    /\ UNCHANGED <<pubsub, outKind, entries, files, idx, generated, outcome,
                   failStage, before, written, runNo, firstRun, faults, fnVars>>

\* removeGeneratedSchemas: os.ReadDir fails otherwise
CleanReadDirError ==
    /\ pc = "clean"
    /\ \/ outKind = "file" /\ faults' = faults
       \/ outKind = "dir" /\ faults < MaxFaults /\ faults' = faults + 1
    /\ Abort("readdir")
    /\ UNCHANGED <<pubsub, outKind, entries, files, idx, generated, before,
                   written, runNo, firstRun, fnVars>>

CleanAll ==
    /\ pc = "clean"
    /\ outKind = "dir"
    /\ entries' = removeFirst(entries, removable(entries), Len(removable(entries)))
    /\ pc' = "loop"
    /\ UNCHANGED <<pubsub, outKind, files, idx, generated, outcome, failStage,
                   before, written, runNo, firstRun, faults, fnVars>>

\* removeGeneratedSchemas: os.Remove fails on the k-th file
CleanRemoveError ==
    /\ pc = "clean"
    /\ outKind = "dir"
    /\ faults < MaxFaults
    /\ \E k \in 1..Len(removable(entries)) :
        entries' = removeFirst(entries, removable(entries), k - 1)
    /\ faults' = faults + 1
    /\ Abort("remove")
    /\ UNCHANGED <<pubsub, outKind, files, idx, generated, before, written,
                   runNo, firstRun, fnVars>>

\* a write that appends to the file it finds
writeFileAppend(n, contents) ==
    /\ ~IsDirAt(entries, n)
    /\ outKind' = "dir"
    /\ entries' = Put(entries, File(n,
            (IF Has(entries, n) THEN EntryOf(entries, n).data ELSE <<>>)
                \o writeFileBytes(contents)))

\* writeFile succeeds: os.MkdirAll, then os.WriteFile replaces the file
writeFile(n, contents) ==
    /\ ~IsDirAt(entries, n)
    /\ outKind' = "dir"
    /\ entries' = Put(entries, File(n, writeFileBytes(contents)))

\* writeFile fails: the path is a directory, or the environment fails
\* os.MkdirAll or the open (nothing changes, or only the directory is made),
\* or the write after the open has truncated the file
writeFileError(n) ==
    \/ /\ IsDirAt(entries, n)
       /\ UNCHANGED <<outKind, entries, faults>>
    \/ /\ faults < MaxFaults
       /\ faults' = faults + 1
       /\ \/ UNCHANGED <<outKind, entries>>
          \/ outKind' = "dir" /\ entries' = entries
          \/ /\ ~IsDirAt(entries, n)
             /\ outKind' = "dir"
             /\ entries' = Put(entries, File(n, <<>>))

outName(p) == deriveSchemaNameFromFilename(p) \o SchemaSuffix

manifestOf(p) ==
    schemaManifest(deriveSchemaNameFromFilename(p),
                   normalizeNewlines(protoText(rawOfPath(p))))

\* one turn of the loop of generateAll: os.ReadFile fails
ManifestReadError ==
    /\ pc = "loop"
    /\ idx <= Len(files)
    /\ faults < MaxFaults
    /\ faults' = faults + 1
    /\ Abort("read")
    /\ UNCHANGED <<pubsub, outKind, entries, files, idx, generated, before,
                   written, runNo, firstRun, fnVars>>

\* one turn of the loop of generateAll: the manifest is written
ManifestWrite ==
    /\ pc = "loop"
    /\ idx <= Len(files)
    /\ writeFile(outName(files[idx]), manifestOf(files[idx]))
    /\ generated' = Append(generated, Base(outName(files[idx])))
    /\ written' = Append(written, outName(files[idx]))
    /\ idx' = idx + 1
    /\ pc' = IF idx = Len(files) THEN "index" ELSE "loop"
    /\ UNCHANGED <<pubsub, files, outcome, failStage, before, runNo, firstRun,
                   faults, fnVars>>

\* a failed write that retracts the manifests of this run
ManifestWriteErrorRollback ==
    /\ pc = "loop"
    /\ idx <= Len(files)
    /\ IsDirAt(entries, outName(files[idx]))
    /\ entries' = {e \in entries : \A k \in 1..Len(written) : written[k] # e.name}
    /\ Abort("write")
    /\ UNCHANGED <<pubsub, outKind, files, idx, generated, before, written,
                   runNo, firstRun, faults, fnVars>>

\* one turn of the loop of generateAll: writeFile fails
ManifestWriteError ==
    /\ pc = "loop"
    /\ idx <= Len(files)
    /\ writeFileError(outName(files[idx]))
    /\ Abort("write")
    /\ UNCHANGED <<pubsub, files, idx, generated, before, written, runNo,
                   firstRun, fnVars>>

\* the index written from the names in the order of the loop
IndexWriteUnsorted ==
    /\ pc = "index"
    /\ writeFile(KustomizationName, kustomizationText(generated))
    /\ pc' = "done"
    /\ outcome' = "ok"
    /\ UNCHANGED <<pubsub, files, idx, generated, failStage, before, written,
                   runNo, firstRun, faults, fnVars>>

\* sort.Strings(generated) and writeKustomization, the end of a run
IndexWrite ==
    /\ pc = "index"
    /\ writeFile(KustomizationName, kustomizationText(SortStrings(generated)))
    /\ generated' = SortStrings(generated)
    /\ pc' = "done"
    /\ outcome' = "ok"
    /\ UNCHANGED <<pubsub, files, idx, failStage, before, written, runNo,
                   firstRun, faults, fnVars>>

IndexWriteError ==
    /\ pc = "index"
    /\ writeFileError(KustomizationName)
    /\ generated' = SortStrings(generated)
    /\ Abort("index")
    /\ UNCHANGED <<pubsub, files, idx, before, written, runNo, firstRun, fnVars>>

\* the generator is run again, the inputs unchanged
SecondRun ==
    /\ pc = "done"
    /\ runNo = "first"
    /\ runNo' = "second"
    /\ firstRun' = [outcome |-> outcome, kind |-> outKind, entries |-> entries]
    /\ pc' = "idle"
    /\ outcome' = "none"
    /\ failStage' = "none"
    /\ files' = <<>>
    /\ idx' = 1
    /\ generated' = <<>>
    /\ written' = <<>>
    /\ before' = Snapshot
    /\ UNCHANGED <<pubsub, outKind, entries, faults, fnVars>>

Next ==
    \/ RunNoInputs
    \/ RunResolve
    \/ CleanAbsent
    \/ CleanReadDirError
    \/ CleanAll
    \/ CleanRemoveError
    \/ ManifestReadError
    \/ ManifestWrite
    \/ ManifestWriteError
    \/ IndexWrite
    \/ IndexWriteError
    \/ SecondRun

Spec == Init /\ [][Next]_vars

----------------------------------------------------------------------------
(* deriveSchemaNameFromFilename and the text functions on their own *)

RunIdle ==
    /\ pubsub = {}
    /\ outKind = "absent"
    /\ entries = {}
    /\ pc = "off"
    /\ files = <<>>
    /\ idx = 1
    /\ generated = <<>>
    /\ outcome = "none"
    /\ failStage = "none"
    /\ before = [kind |-> "absent", entries |-> {}]
    /\ written = <<>>
    /\ runNo = "first"
    /\ firstRun = NoRun
    /\ faults = 0

SeqsUpTo(A, n) == UNION {[1..k -> A] : k \in 0..n}

\* alphanumerics, "." and "_"
RawAlphabet == {"1", "B", "a", "b", ".", "_"}

InitDerive ==
    /\ RunIdle
    /\ fnPc = "raw"
    /\ fnIn \in SeqsUpTo(RawAlphabet, MaxRawLen)
    /\ fnOut = <<>>

\* the name of <raw>.pubsub.proto, as generateAll derives it from the path
DeriveName ==
    /\ fnPc = "raw"
    /\ fnOut' = <<deriveSchemaNameFromFilename(globPath(fnIn))>>
    /\ fnPc' = "derived"
    /\ UNCHANGED <<fnIn, runVars>>

\* the derivation applied to its own result
DeriveAgain ==
    /\ fnPc = "derived"
    /\ fnOut' = Append(fnOut, deriveSchemaNameFromFilename(fnOut[1]))
    /\ fnPc' = "again"
    /\ UNCHANGED <<fnIn, runVars>>

NextDerive == DeriveName \/ DeriveAgain

SpecDerive == InitDerive /\ [][NextDerive]_vars

TextAlphabet == {CR, LF, "x"}

InitText ==
    /\ RunIdle
    /\ fnPc = "text"
    /\ fnIn \in SeqsUpTo(TextAlphabet, MaxTextLen)
    /\ fnOut = <<>>

NormalizeText ==
    /\ fnPc = "text"
    /\ fnOut' = <<normalizeNewlines(fnIn)>>
    /\ fnPc' = "normalized"
    /\ UNCHANGED <<fnIn, runVars>>

\* schemaManifest of the normalized text, as writeFile puts it on disk
WriteManifestText ==
    /\ fnPc = "normalized"
    /\ fnOut' = Append(fnOut, writeFileBytes(schemaManifest(<<"a">>, fnOut[1])))
    /\ fnPc' = "written"
    /\ UNCHANGED <<fnIn, runVars>>

NextText == NormalizeText \/ WriteManifestText

SpecText == InitText /\ [][NextText]_vars

----------------------------------------------------------------------------
(* Properties *)

Finished == pc = "done"

Succeeded == pc = "done" /\ outcome = "ok"

IsSchemaName(n) == HasSuffix(n, SchemaSuffix)

IsFileAt(E, n) == Has(E, n) /\ EntryOf(E, n).kind = "file"

InputNames == {outName(files[k]) : k \in 1..Len(files)}

Range(q) == {q[k] : k \in 1..Len(q)}

diskBytes(p) == writeFileBytes(manifestOf(p))

\* the resources list as a reader of kustomization.yaml finds it
resourcesOf(text) ==
    LET items == SelectSeq(Split(text, LF), LAMBDA l : l # <<>> /\ Head(l) = "  - ")
    IN [k \in 1..Len(items) |-> Tail(items[k])]

\* C1: after a successful run every regular file of the output directory
\* named *.schema.yaml carries the derived name of a current input, and a
\* *.schema.yaml file that was there before and matches no current input is
\* gone.
C1_StaleCleanup ==
    Succeeded =>
        /\ \A e \in entries :
            (e.kind = "file" /\ IsSchemaName(e.name)) => e.name \in InputNames
        /\ \A e \in before.entries :
            (e.kind = "file" /\ IsSchemaName(e.name) /\ e.name \notin InputNames)
                => ~Has(entries, e.name)

C1_Witness ==
    /\ Succeeded
    /\ \E e \in before.entries :
        /\ e.kind = "file" /\ IsSchemaName(e.name) /\ e.name \notin InputNames
        /\ ~Has(entries, e.name)

\* C2: when no regular file matches, the run ends in the error outcome and
\* the output directory is as it was: nothing created, overwritten or removed,
\* and the directory not created.
C2_EmptyInputNoChange ==
    (Finished /\ {m \in pubsub : m.regular} = {}) =>
        /\ outcome = "error"
        /\ failStage = "empty"
        /\ outKind = before.kind
        /\ entries = before.entries

C2_Witness ==
    /\ Finished
    /\ failStage = "empty"
    /\ pubsub # {}
    /\ IsFileAt(entries, KustomizationName)
    /\ \E e \in entries : e.kind = "file" /\ IsSchemaName(e.name)

\* C3: after a run that aborted on a manifest read or write failure there is
\* no kustomization.yaml file in the output directory.
C3_IndexSignalsCompletion ==
    (Finished /\ failStage \in {"read", "write"}) => ~IsFileAt(entries, KustomizationName)

C5_Idempotent ==
    (Finished /\ runNo = "second" /\ (faults = 0 \/ (Succeeded /\ firstRun.outcome = "ok"))) =>
        /\ outcome = firstRun.outcome
        /\ outKind = firstRun.kind
        /\ entries = firstRun.entries

C5_Witness ==
    /\ Succeeded
    /\ runNo = "second"
    /\ firstRun.outcome = "ok"
    /\ Len(files) >= 2
    /\ \E e \in firstRun.entries : e.kind = "file" /\ IsSchemaName(e.name)

\* C6: after a successful run the resources list of kustomization.yaml is in
\* lexicographic order and names the manifests written in this run and
\* nothing else.
C6_SortedIndex ==
    Succeeded =>
        /\ IsFileAt(entries, KustomizationName)
        /\ IsSorted(resourcesOf(EntryOf(entries, KustomizationName).data))
        /\ Range(resourcesOf(EntryOf(entries, KustomizationName).data)) = Range(written)
        /\ Range(written) = {e.name : e \in {x \in entries :
                                x.kind = "file" /\ IsSchemaName(x.name)}}

\* the names come out of the loop in another order than the sorted one
C6_Witness ==
    /\ Succeeded
    /\ \E j, k \in 1..Len(files) : j < k /\ Less(outName(files[k]), outName(files[j]))

\* C7 as stated: a run changes only regular files named *.schema.yaml and
\* kustomization.yaml; every other entry is there unchanged after the run.
C7_FrameRegularFiles ==
    Finished =>
        \A e \in before.entries :
            (e.name # KustomizationName /\ ~(e.kind = "file" /\ IsSchemaName(e.name)))
                => e \in entries

\* C7: a run changes only entries named *.schema.yaml that are no directories
\* and kustomization.yaml: every other entry stays as it was, and what the
\* run adds are regular files under those names.
C7_Frame ==
    /\ \A e \in before.entries :
        (e.name # KustomizationName /\ ~(e.kind # "dir" /\ IsSchemaName(e.name)))
            => e \in entries
    /\ \A e \in entries :
        e \notin before.entries =>
            e.kind = "file" /\ (e.name = KustomizationName \/ IsSchemaName(e.name))

C7_Witness ==
    /\ Succeeded
    /\ IsFileAt(entries, OtherName)
    /\ \E e \in before.entries :
        /\ e.kind = "dir" /\ IsSchemaName(e.name) /\ e \in entries
    /\ \E e \in entries : e \notin before.entries /\ IsSchemaName(e.name)

SafeChars ==
    {"-", "1", "a", "b", "c", "d", "e", "f", "g", "h", "i", "j", "k", "l", "m",
     "n", "o", "p", "q", "r", "s", "t", "u", "v", "w", "x", "y", "z"}

IsSafeName(n) == \A k \in 1..Len(n) : n[k] \in SafeChars

\* C8 as stated: for every raw identifier the derived name holds lowercase
\* alphanumerics and "-" only, and deriving from it returns it unchanged.
C8_DeriveIdempotentAll ==
    fnPc = "again" => IsSafeName(fnOut[1]) /\ fnOut[2] = fnOut[1]

\* C8: for every raw identifier that is not empty the derived name holds
\* lowercase alphanumerics and "-" only, and deriving from it returns it
\* unchanged.
C8_DeriveIdempotent ==
    (fnPc = "again" /\ fnIn # <<>>) => IsSafeName(fnOut[1]) /\ fnOut[2] = fnOut[1]

C8_Witness ==
    /\ fnPc = "again"
    /\ \E a, b, c \in 1..Len(fnIn) : fnIn[a] = "B" /\ fnIn[b] = "." /\ fnIn[c] = "_"
    /\ fnOut[2] = fnOut[1]

\* C9: for every input text, the normalized text and the bytes on disk hold
\* no CR LF pair, and the normalized text ends with exactly one newline.
C9_LFOnly ==
    fnPc = "written" =>
        /\ ~HasCRLF(fnOut[1])
        /\ ~HasCRLF(fnOut[2])
        /\ fnOut[1][Len(fnOut[1])] = LF
        /\ Len(fnOut[1]) >= 2 => fnOut[1][Len(fnOut[1]) - 1] # LF

\* the part of C10 that the last writer wins: each name has one file, the
\* manifest of the last input in sorted order with that name
C10_LastWriterWins ==
    Succeeded =>
        \A k \in 1..Len(files) :
            (\A j \in (k + 1)..Len(files) : outName(files[j]) # outName(files[k]))
                => File(outName(files[k]), diskBytes(files[k])) \in entries

\* C10: when inputs share a derived name, a successful run leaves one file
\* for the name, holding the last such input in sorted order, and the
\* resources list has one entry per name: each file present, once.
C10_CollisionIndexedOnce ==
    Succeeded =>
        LET r == resourcesOf(EntryOf(entries, KustomizationName).data)
        IN /\ C10_LastWriterWins
           /\ \A a, b \in 1..Len(r) : a # b => r[a] # r[b]
           /\ Range(r) = {e.name : e \in {x \in entries :
                            x.kind = "file" /\ IsSchemaName(x.name)}}

====
